---- MODULE Spec2Model ----
(***************************************************************************)
(* Model of the OpenWhispr fast-paste helpers:                             *)
(*   resources/linux-fast-paste.c    (XTest backend and uinput backend)    *)
(*   resources/windows-fast-paste.c  (SendInput backend)                   *)
(* One invocation of one binary is one behaviour: pc walks through the     *)
(* statements of main() and of the functions it calls, every external call *)
(* is appended to the log `calls`, and the outcome of every external call  *)
(* is chosen nondeterministically when the call is made.                   *)
(*                                                                         *)
(* Text is a sequence of one-character strings; a C string pointer is a    *)
(* record [isNull, str].  X protocol errors (asynchronous BadWindow and    *)
(* the like, handled inside Xlib) are not modelled: every Xlib call        *)
(* returns to the caller with one of its documented results.               *)
(***************************************************************************)
EXTENDS Integers, Sequences, FiniteSets, TLC

\* Longest command line explored (argc - 1).
MaxArgs == 3

(***************************************************************************)
(* Strings                                                                 *)
(***************************************************************************)
\* tolower() of the C locale, as applied by strcasestr and _stricmp.
ToLower(c) ==
    CASE c = "A" -> "a"
      [] c = "B" -> "b"
      [] c = "C" -> "c"
      [] c = "D" -> "d"
      [] c = "E" -> "e"
      [] c = "F" -> "f"
      [] c = "G" -> "g"
      [] c = "H" -> "h"
      [] c = "I" -> "i"
      [] c = "J" -> "j"
      [] c = "K" -> "k"
      [] c = "L" -> "l"
      [] c = "M" -> "m"
      [] c = "N" -> "n"
      [] c = "O" -> "o"
      [] c = "P" -> "p"
      [] c = "Q" -> "q"
      [] c = "R" -> "r"
      [] c = "S" -> "s"
      [] c = "T" -> "t"
      [] c = "U" -> "u"
      [] c = "V" -> "v"
      [] c = "W" -> "w"
      [] c = "X" -> "x"
      [] c = "Y" -> "y"
      [] c = "Z" -> "z"
      [] OTHER -> c

\* Variant of strcasestr: the characters are compared as they are (strstr).
strstr(haystack, needle) ==
    \E off \in 0..(Len(haystack) - Len(needle)) :
        \A k \in 1..Len(needle) : haystack[off + k] = needle[k]

\* strcasestr(haystack, needle) != NULL
strcasestr(haystack, needle) ==
    \E off \in 0..(Len(haystack) - Len(needle)) :
        \A k \in 1..Len(needle) : ToLower(haystack[off + k]) = ToLower(needle[k])

\* Variant of stricmp_eq: only the first Len(b) characters are compared.
stricmp_eq_prefix(a, b) ==
    /\ Len(a) >= Len(b)
    /\ \A k \in 1..Len(b) : ToLower(a[k]) = ToLower(b[k])

\* _stricmp(a, b) == 0
stricmp_eq(a, b) ==
    /\ Len(a) = Len(b)
    /\ \A k \in 1..Len(a) : ToLower(a[k]) = ToLower(b[k])

NullStr == [isNull |-> TRUE, str |-> <<>>]
Str(s) == [isNull |-> FALSE, str |-> s]

\* linux-fast-paste.c: the registry of terminal class substrings.
terminal_classes ==
    << <<"k", "o", "n", "s", "o", "l", "e">>,   \* konsole
       <<"g", "n", "o", "m", "e", "-", "t", "e", "r", "m", "i", "n", "a", "l">>,   \* gnome-terminal
       <<"t", "e", "r", "m", "i", "n", "a", "l">>,   \* terminal
       <<"k", "i", "t", "t", "y">>,   \* kitty
       <<"a", "l", "a", "c", "r", "i", "t", "t", "y">>,   \* alacritty
       <<"t", "e", "r", "m", "i", "n", "a", "t", "o", "r">>,   \* terminator
       <<"x", "t", "e", "r", "m">>,   \* xterm
       <<"u", "r", "x", "v", "t">>,   \* urxvt
       <<"r", "x", "v", "t">>,   \* rxvt
       <<"t", "i", "l", "i", "x">>,   \* tilix
       <<"t", "e", "r", "m", "i", "n", "o", "l", "o", "g", "y">>,   \* terminology
       <<"w", "e", "z", "t", "e", "r", "m">>,   \* wezterm
       <<"f", "o", "o", "t">>,   \* foot
       <<"s", "t">>,   \* st
       <<"y", "a", "k", "u", "a", "k", "e">>,   \* yakuake
       <<"g", "h", "o", "s", "t", "t", "y">>,   \* ghostty
       <<"g", "u", "a", "k", "e">>,   \* guake
       <<"t", "i", "l", "d", "a">>,   \* tilda
       <<"h", "y", "p", "e", "r">>,   \* hyper
       <<"t", "a", "b", "b", "y">>,   \* tabby
       <<"s", "a", "k", "u", "r", "a">>,   \* sakura
       <<"w", "a", "r", "p">> >>   \* warp

\* windows-fast-paste.c: the registry of terminal window classes.
TERMINAL_CLASSES ==
    << <<"C", "o", "n", "s", "o", "l", "e", "W", "i", "n", "d", "o", "w", "C", "l", "a", "s", "s">>,   \* ConsoleWindowClass
       <<"C", "A", "S", "C", "A", "D", "I", "A", "_", "H", "O", "S", "T", "I", "N", "G", "_", "W", "I", "N", "D", "O", "W", "_", "C", "L", "A", "S", "S">>,   \* CASCADIA_HOSTING_WINDOW_CLASS
       <<"m", "i", "n", "t", "t", "y">>,   \* mintty
       <<"V", "i", "r", "t", "u", "a", "l", "C", "o", "n", "s", "o", "l", "e", "C", "l", "a", "s", "s">>,   \* VirtualConsoleClass
       <<"P", "u", "T", "T", "Y">>,   \* PuTTY
       <<"A", "l", "a", "c", "r", "i", "t", "t", "y">>,   \* Alacritty
       <<"o", "r", "g", ".", "w", "e", "z", "f", "u", "r", "l", "o", "n", "g", ".", "w", "e", "z", "t", "e", "r", "m">>,   \* org.wezfurlong.wezterm
       <<"H", "y", "p", "e", "r">>,   \* Hyper
       <<"T", "M", "o", "b", "a", "X", "t", "e", "r", "m">>,   \* TMobaXterm
       <<"k", "i", "t", "t", "y">> >>   \* kitty

\* is_terminal(): scan the registry from entry i, return at the first match.
RECURSIVE is_terminal_from(_, _)
is_terminal_from(wm_class, i) ==
    IF i > Len(terminal_classes) THEN FALSE
    ELSE IF strcasestr(wm_class.str, terminal_classes[i]) THEN TRUE
    ELSE is_terminal_from(wm_class, i + 1)

is_terminal(wm_class) ==
    IF wm_class.isNull THEN FALSE ELSE is_terminal_from(wm_class, 1)

\* IsTerminalClass(): scan the registry from entry i, whole-string compare.
RECURSIVE IsTerminalClass_from(_, _)
IsTerminalClass_from(className, i) ==
    IF i > Len(TERMINAL_CLASSES) THEN FALSE
    ELSE IF stricmp_eq(className, TERMINAL_CLASSES[i]) THEN TRUE
    ELSE IsTerminalClass_from(className, i + 1)

IsTerminalClass(className) == IsTerminalClass_from(className, 1)

(***************************************************************************)
(* Inputs                                                                  *)
(***************************************************************************)
\* Command-line words of the linux binary: its flags and two window ids as
\* the caller writes them.
LinuxTokens == {"--terminal", "--uinput", "--window", "0", "0x11"}

\* Command-line words of the windows binary: its flag and a word it ignores.
WindowsTokens == {"--detect-only", "--terminal"}

RECURSIVE SeqsUpTo(_, _)
SeqsUpTo(S, n) ==
    IF n = 0 THEN {<<>>}
    ELSE LET shorter == SeqsUpTo(S, n - 1)
         IN  shorter \cup {Append(s, t) : s \in {x \in shorter : Len(x) = n - 1}, t \in S}

ArgvSet(bin) ==
    SeqsUpTo(IF bin = "linux" THEN LinuxTokens ELSE WindowsTokens, MaxArgs)

\* strtoul(word, NULL, 0): the value of the leading number, 0 when the word
\* does not start with one.
strtoul(word) ==
    CASE word = "0x11" -> 17
      [] word = "0" -> 0
      [] OTHER -> 0

None == 0
\* The window the display server may report as active or focused (None is
\* 0); it differs from the window 0x11 of the command line.
WindowIds == {18}

NoHint == [status |-> "unqueried", res_class |-> NullStr, res_name |-> NullStr]

Hint(c, n) == [status |-> "ok", res_class |-> c, res_name |-> n]

\* What XGetClassHint can produce: status 0 (the window has no WM_CLASS
\* property), or a class hint with its two strings (res_class, res_name),
\* either of which may be NULL or empty.  ClassifyHints below is the larger
\* set used for the classifier alone.
Hints ==
    { [NoHint EXCEPT !.status = "failed"],
      Hint(Str(<<>>), NullStr),
      Hint(Str(<<"X", "T", "e", "r", "m">>), Str(<<"x", "t", "e", "r", "m">>)),
      Hint(Str(<<"E", "m", "a", "c", "s">>), Str(<<"k", "i", "t", "t", "y">>)) }

\* Window-class names GetClassNameA may copy out (the empty one has length 0).
WinClassNames ==
    { <<>>,
      <<"C", "o", "n", "s", "o", "l", "e", "W", "i", "n", "d", "o", "w", "C", "l", "a", "s", "s">>,
      <<"C", "h", "r", "o", "m", "e", "_", "W", "i", "d", "g", "e", "t", "W", "i", "n", "_", "1">>,
      <<"p", "u", "t", "t", "y">>,
      <<"k", "i", "t", "t", "y", "-", "x">>,
      <<"M", "i", "n", "t", "t">>,
      <<"H", "Y", "P", "E", "R">> }

(***************************************************************************)
(* State                                                                   *)
(***************************************************************************)
VARIABLES
    binary,          \* "linux" or "windows": which executable runs
    haveUinput,      \* linux build: HAVE_UINPUT defined
    argv,            \* argv[1..argc-1]
    wm_class,        \* desktop: WM_CLASS of the window that holds the keyboard
                     \* focus during synthesis (the window the keys go to)
    pc,              \* position in the program
    i,               \* loop index of the argument loop
    force_terminal,  \* linux main
    use_uinput,      \* linux main
    target_window,   \* linux main
    dpy,             \* display connection: "none", "failed", "open", "closed"
    prop,            \* get_active_window: the atom exists
    win,             \* linux main
    hint,            \* result of XGetClassHint
    use_shift,       \* linux main / parameter of paste_via_uinput
    fd,              \* /dev/uinput descriptor: "none", "failed", "open", "closed"
    dev,             \* virtual device: "none", "created", "destroyed"
    failedWrites,    \* number of write() calls that returned < 0
    detectOnly,      \* windows main
    hwnd,            \* windows main
    className,       \* windows main
    classLen,        \* windows main
    isTerminal,      \* windows main
    result,          \* windows main: value of SendPaste*()
    sent,            \* value returned by SendInput, -1 before the call
    exit,            \* exit status, -1 while running
    calls            \* log of external calls, in program order

vars == << binary, haveUinput, argv, wm_class, pc, i, force_terminal, use_uinput,
           target_window, dpy, prop, win, hint, use_shift, fd, dev,
           failedWrites, detectOnly, hwnd, className, classLen, isTerminal,
           result, sent, exit, calls >>

linuxVars   == << force_terminal, use_uinput, target_window, dpy, prop, win,
                 hint, use_shift, fd, dev, failedWrites >>
windowsVars == << detectOnly, hwnd, className, classLen, isTerminal, result, sent >>
buildVars   == << binary, haveUinput, argv, wm_class >>

\* A logged call: the function, its distinguishing argument, and the
\* number the program's flow depends on (an argument or the result).
Call(op, key, val) == [op |-> op, key |-> key, val |-> val]
Log(op, key, val) == calls' = Append(calls, Call(op, key, val))

Init ==
    /\ binary \in {"linux", "windows"}
    /\ argv \in ArgvSet(binary)
    \* HAVE_UINPUT only changes code that runs under --uinput: the build
    \* without it is explored for the command lines that contain the word.
    /\ haveUinput \in (IF \E p \in 1..Len(argv) : argv[p] = "--uinput"
                         THEN BOOLEAN ELSE {binary = "linux"})
    /\ wm_class \in (IF binary = "linux" THEN Hints ELSE {NoHint})
    /\ pc = "parse"
    /\ i = 1
    /\ force_terminal = FALSE
    /\ use_uinput = FALSE
    /\ target_window = None
    /\ dpy = "none"
    /\ prop = FALSE
    /\ win = None
    /\ hint = NoHint
    /\ use_shift = FALSE
    /\ fd = "none"
    /\ dev = "none"
    /\ failedWrites = 0
    /\ detectOnly = FALSE
    /\ hwnd = 0
    /\ className = <<>>
    /\ classLen = 0
    /\ isTerminal = FALSE
    /\ result = 0
    /\ sent = -1
    /\ exit = -1
    /\ calls = <<>>

(***************************************************************************)
(* linux-fast-paste.c: main, argument loop                                 *)
(***************************************************************************)
\* One iteration of the for loop over argv.
main_parse_arg ==
    /\ binary = "linux" /\ pc = "parse" /\ i <= Len(argv)
    /\ IF argv[i] = "--terminal"
         THEN /\ force_terminal' = TRUE
              /\ i' = i + 1
              /\ UNCHANGED << use_uinput, target_window >>
       ELSE IF argv[i] = "--uinput"
         THEN /\ use_uinput' = TRUE
              /\ i' = i + 1
              /\ UNCHANGED << force_terminal, target_window >>
       ELSE IF argv[i] = "--window" /\ i + 1 <= Len(argv)
         THEN /\ target_window' = strtoul(argv[i + 1])
              /\ i' = i + 2
              /\ UNCHANGED << force_terminal, use_uinput >>
       ELSE /\ i' = i + 1
            /\ UNCHANGED << force_terminal, use_uinput, target_window >>
    /\ UNCHANGED << buildVars, pc, dpy, prop, win, hint, use_shift, fd, dev,
                    failedWrites, windowsVars, exit, calls >>

\* End of the loop; if (use_uinput) selects the backend.
main_select_backend ==
    /\ binary = "linux" /\ pc = "parse" /\ i > Len(argv)
    /\ IF use_uinput
         THEN IF haveUinput
                THEN /\ use_shift' = force_terminal
                     /\ pc' = "u_open"
                     /\ UNCHANGED << exit, calls >>
                ELSE /\ Log("fprintf", "uinput support not compiled in", 0)
                     /\ exit' = 3
                     /\ pc' = "done"
                     /\ UNCHANGED use_shift
         ELSE /\ pc' = "x_open"
              /\ UNCHANGED << use_shift, exit, calls >>
    /\ UNCHANGED << buildVars, i, force_terminal, use_uinput, target_window,
                    dpy, prop, win, hint, fd, dev, failedWrites, windowsVars >>

parseVars == << i, force_terminal, use_uinput, target_window >>
uinputVars == << fd, dev, failedWrites >>

\* A statement that only makes one external call and falls through.
XStep(from, to, op, key, val) ==
    /\ binary = "linux" /\ pc = from
    /\ Log(op, key, val)
    /\ pc' = to
    /\ UNCHANGED << buildVars, parseVars, dpy, prop, win, hint, use_shift,
                    uinputVars, windowsVars, exit >>

(***************************************************************************)
(* linux-fast-paste.c: main, display-server backend                        *)
(***************************************************************************)
\* Display *dpy = XOpenDisplay(NULL); if (!dpy) return 1;
main_XOpenDisplay ==
    /\ binary = "linux" /\ pc = "x_open"
    /\ \E ok \in BOOLEAN :
         /\ Log("XOpenDisplay", "", IF ok THEN 1 ELSE 0)
         /\ IF ok THEN dpy' = "open" /\ pc' = "x_query" /\ UNCHANGED exit
                  ELSE dpy' = "failed" /\ pc' = "done" /\ exit' = 1
    /\ UNCHANGED << buildVars, parseVars, prop, win, hint, use_shift,
                    uinputVars, windowsVars >>

\* Variant of main_XTestQueryExtension: the failure branch returns 2
\* without XCloseDisplay.
main_XTestQueryExtension_no_close ==
    /\ binary = "linux" /\ pc = "x_query"
    /\ \E ok \in BOOLEAN :
         /\ Log("XTestQueryExtension", "", IF ok THEN 1 ELSE 0)
         /\ IF ok THEN pc' = "x_activate" /\ UNCHANGED exit
                  ELSE pc' = "done" /\ exit' = 2
    /\ UNCHANGED << buildVars, parseVars, dpy, prop, win, hint, use_shift,
                    uinputVars, windowsVars >>

\* Variant of main_XTestQueryExtension: the failure branch returns 1.
main_XTestQueryExtension_returns1 ==
    /\ binary = "linux" /\ pc = "x_query"
    /\ \E ok \in BOOLEAN :
         IF ok
           THEN /\ Log("XTestQueryExtension", "", 1)
                /\ pc' = "x_activate"
                /\ UNCHANGED << dpy, exit >>
           ELSE /\ calls' = calls \o << Call("XTestQueryExtension", "", 0),
                                       Call("XCloseDisplay", "", 0) >>
                /\ dpy' = "closed"
                /\ exit' = 1
                /\ pc' = "done"
    /\ UNCHANGED << buildVars, parseVars, prop, win, hint, use_shift,
                    uinputVars, windowsVars >>

\* if (!XTestQueryExtension(...)) { XCloseDisplay(dpy); return 2; }
main_XTestQueryExtension ==
    /\ binary = "linux" /\ pc = "x_query"
    /\ \E ok \in BOOLEAN :
         IF ok
           THEN /\ Log("XTestQueryExtension", "", 1)
                /\ pc' = "x_activate"
                /\ UNCHANGED << dpy, exit >>
           ELSE /\ calls' = calls \o << Call("XTestQueryExtension", "", 0),
                                       Call("XCloseDisplay", "", 0) >>
                /\ dpy' = "closed"
                /\ exit' = 2
                /\ pc' = "done"
    /\ UNCHANGED << buildVars, parseVars, prop, win, hint, use_shift,
                    uinputVars, windowsVars >>

\* Variant of main_activate_check: the activation call is left out.
main_activate_check_skipped ==
    /\ binary = "linux" /\ pc = "x_activate"
    /\ pc' = "x_resolve"
    /\ UNCHANGED << buildVars, parseVars, dpy, prop, win, hint, use_shift,
                    uinputVars, windowsVars, exit, calls >>

\* if (target_window != None) activate_window(dpy, target_window);
main_activate_check ==
    /\ binary = "linux" /\ pc = "x_activate"
    /\ pc' = IF target_window # None THEN "act_atom" ELSE "x_resolve"
    /\ UNCHANGED << buildVars, parseVars, dpy, prop, win, hint, use_shift,
                    uinputVars, windowsVars, exit, calls >>

\* activate_window(): the statements in order.
activate_XInternAtom ==
    XStep("act_atom", "act_send", "XInternAtom", "_NET_ACTIVE_WINDOW", 0)

\* Variant of activate_XSendEvent: the XFlush after it is left out.
activate_XSendEvent_no_flush ==
    XStep("act_send", "act_sleep", "XSendEvent", "_NET_ACTIVE_WINDOW", target_window)

activate_XSendEvent ==
    XStep("act_send", "act_flush", "XSendEvent", "_NET_ACTIVE_WINDOW", target_window)

activate_XFlush ==
    XStep("act_flush", "act_sleep", "XFlush", "", 0)

\* Variant of activate_usleep: the wait polls, using prop as its flag, until
\* the window manager has acted.
activate_usleep_polls ==
    /\ binary = "linux" /\ pc = "act_sleep"
    /\ prop' = ~prop
    /\ \E acted \in BOOLEAN : pc' = IF acted THEN "act_focus" ELSE "act_sleep"
    /\ UNCHANGED << buildVars, parseVars, dpy, win, hint, use_shift,
                    uinputVars, windowsVars, exit, calls >>

activate_usleep ==
    XStep("act_sleep", "act_focus", "usleep", "", 50000)

activate_XSetInputFocus ==
    XStep("act_focus", "act_flush2", "XSetInputFocus", "RevertToParent", target_window)

activate_XFlush2 ==
    XStep("act_flush2", "act_sleep2", "XFlush", "", 0)

activate_usleep2 ==
    XStep("act_sleep2", "x_resolve", "usleep", "", 20000)

\* Variant of main_resolve: get_active_window is called in every case.
main_resolve_always_queries ==
    /\ binary = "linux" /\ pc = "x_resolve"
    /\ pc' = "gaw_atom"
    /\ UNCHANGED << buildVars, parseVars, dpy, prop, win, hint, use_shift,
                    uinputVars, windowsVars, exit, calls >>

\* Window win = (target_window != None) ? target_window : get_active_window(dpy);
main_resolve ==
    /\ binary = "linux" /\ pc = "x_resolve"
    /\ IF target_window # None
         THEN win' = target_window /\ pc' = "x_use_shift"
         ELSE pc' = "gaw_atom" /\ UNCHANGED win
    /\ UNCHANGED << buildVars, parseVars, dpy, prop, hint, use_shift,
                    uinputVars, windowsVars, exit, calls >>

\* get_active_window(): Atom prop = XInternAtom(dpy, "_NET_ACTIVE_WINDOW", True);
get_active_window_XInternAtom ==
    /\ binary = "linux" /\ pc = "gaw_atom"
    /\ \E exists \in BOOLEAN :
         /\ prop' = exists
         /\ Log("XInternAtom", "_NET_ACTIVE_WINDOW", IF exists THEN 1 ELSE 0)
         /\ pc' = IF exists THEN "gaw_prop" ELSE "gaw_focus"
    /\ UNCHANGED << buildVars, parseVars, dpy, win, hint, use_shift,
                    uinputVars, windowsVars, exit >>

\* What XGetWindowProperty reported: the status, whether data is set, the
\* number of items.
PropertyOutcome(status, data, nitems) ==
    IF ~status THEN "failed"
    ELSE IF ~data THEN "Success, no data"
    ELSE IF nitems = 0 THEN "Success, 0 items"
    ELSE "Success, 1 item"

\* Variant of get_active_window_XGetWindowProperty: win is returned without
\* the test win != None.
get_active_window_XGetWindowProperty_returns_none ==
    /\ binary = "linux" /\ pc = "gaw_prop"
    /\ \E status \in BOOLEAN, data \in BOOLEAN, nitems \in {0, 1},
          value \in WindowIds \cup {None} :
         LET w == IF nitems > 0 THEN value ELSE None
         IN  /\ Log("XGetWindowProperty", PropertyOutcome(status, data, nitems),
                    IF status /\ data THEN w ELSE None)
             /\ IF status /\ data
                  THEN win' = w /\ pc' = "x_use_shift"
                  ELSE pc' = "gaw_focus" /\ UNCHANGED win
    /\ UNCHANGED << buildVars, parseVars, dpy, prop, hint, use_shift,
                    uinputVars, windowsVars, exit >>

\* get_active_window(): XGetWindowProperty and the use of its result.
\* status: the call returned Success; data: data != NULL; nitems; value: *data.
\* The logged value is the window read from the property, None without one.
get_active_window_XGetWindowProperty ==
    /\ binary = "linux" /\ pc = "gaw_prop"
    /\ \E status \in BOOLEAN, data \in BOOLEAN, nitems \in {0, 1},
          value \in WindowIds \cup {None} :
         LET w == IF nitems > 0 THEN value ELSE None
         IN  /\ Log("XGetWindowProperty", PropertyOutcome(status, data, nitems),
                    IF status /\ data THEN w ELSE None)
             /\ IF status /\ data /\ w # None
                  THEN win' = w /\ pc' = "x_use_shift"
                  ELSE pc' = "gaw_focus" /\ UNCHANGED win
    /\ UNCHANGED << buildVars, parseVars, dpy, prop, hint, use_shift,
                    uinputVars, windowsVars, exit >>

\* get_active_window(): XGetInputFocus(dpy, &focused, &revert); return focused;
get_active_window_XGetInputFocus ==
    /\ binary = "linux" /\ pc = "gaw_focus"
    /\ \E focused \in WindowIds \cup {None} :
         /\ win' = focused
         /\ Log("XGetInputFocus", "", focused)
    /\ pc' = "x_use_shift"
    /\ UNCHANGED << buildVars, parseVars, dpy, prop, hint, use_shift,
                    uinputVars, windowsVars, exit >>

\* Variant of main_use_shift: use_shift starts at 0.
main_use_shift_zero ==
    /\ binary = "linux" /\ pc = "x_use_shift"
    /\ use_shift' = FALSE
    /\ pc' = "x_classify"
    /\ UNCHANGED << buildVars, parseVars, dpy, prop, win, hint,
                    uinputVars, windowsVars, exit, calls >>

\* int use_shift = force_terminal;
main_use_shift ==
    /\ binary = "linux" /\ pc = "x_use_shift"
    /\ use_shift' = force_terminal
    /\ pc' = "x_classify"
    /\ UNCHANGED << buildVars, parseVars, dpy, prop, win, hint,
                    uinputVars, windowsVars, exit, calls >>

\* Variant of main_classify: only res_class is classified.
main_classify_class_only ==
    /\ binary = "linux" /\ pc = "x_classify"
    /\ IF ~use_shift /\ win # None
         THEN /\ Log("XGetClassHint", "", win)
              /\ hint' = wm_class
              /\ use_shift' = IF wm_class.status = "ok"
                                THEN is_terminal(wm_class.res_class)
                                ELSE use_shift
         ELSE UNCHANGED << hint, use_shift, calls >>
    /\ pc' = "x_keycodes"
    /\ UNCHANGED << buildVars, parseVars, dpy, prop, win,
                    uinputVars, windowsVars, exit >>

\* if (!use_shift && win != None) { if (XGetClassHint(...)) use_shift = ...; }
main_classify ==
    /\ binary = "linux" /\ pc = "x_classify"
    /\ IF ~use_shift /\ win # None
         THEN /\ Log("XGetClassHint", "", win)
              /\ hint' = wm_class
              /\ use_shift' = IF wm_class.status = "ok"
                                THEN is_terminal(wm_class.res_class)
                                       \/ is_terminal(wm_class.res_name)
                                ELSE use_shift
         ELSE UNCHANGED << hint, use_shift, calls >>
    /\ pc' = "x_keycodes"
    /\ UNCHANGED << buildVars, parseVars, dpy, prop, win,
                    uinputVars, windowsVars, exit >>

\* KeyCode ctrl = ..., shift = ..., v = XKeysymToKeycode(dpy, ...);
main_XKeysymToKeycode ==
    /\ binary = "linux" /\ pc = "x_keycodes"
    /\ pc' = "x_ctrl_down"
    /\ UNCHANGED << buildVars, parseVars, dpy, prop, win, hint, use_shift,
                    uinputVars, windowsVars, exit, calls >>

\* Variant of main_fake_ctrl_press: the keycode of v is passed.
main_fake_ctrl_press_wrong_key ==
    XStep("x_ctrl_down", "x_shift_down", "XTestFakeKeyEvent", "XK_v", 1)

\* XTestFakeKeyEvent(dpy, ctrl, True, CurrentTime);
main_fake_ctrl_press ==
    XStep("x_ctrl_down", "x_shift_down", "XTestFakeKeyEvent", "XK_Control_L", 1)

\* if (use_shift) XTestFakeKeyEvent(dpy, shift, True, CurrentTime);
main_fake_shift_press ==
    /\ binary = "linux" /\ pc = "x_shift_down"
    /\ IF use_shift THEN Log("XTestFakeKeyEvent", "XK_Shift_L", 1)
                    ELSE UNCHANGED calls
    /\ pc' = "x_sleep1"
    /\ UNCHANGED << buildVars, parseVars, dpy, prop, win, hint, use_shift,
                    uinputVars, windowsVars, exit >>

main_usleep1 ==
    XStep("x_sleep1", "x_v_down", "usleep", "", 8000)

\* XTestFakeKeyEvent(dpy, v, True, CurrentTime);
main_fake_v_press ==
    XStep("x_v_down", "x_sleep2", "XTestFakeKeyEvent", "XK_v", 1)

main_usleep2 ==
    XStep("x_sleep2", "x_v_up", "usleep", "", 8000)

\* XTestFakeKeyEvent(dpy, v, False, CurrentTime);
main_fake_v_release ==
    XStep("x_v_up", "x_sleep3", "XTestFakeKeyEvent", "XK_v", 0)

main_usleep3 ==
    XStep("x_sleep3", "x_shift_up", "usleep", "", 8000)

\* if (use_shift) XTestFakeKeyEvent(dpy, shift, False, CurrentTime);
main_fake_shift_release ==
    /\ binary = "linux" /\ pc = "x_shift_up"
    /\ IF use_shift THEN Log("XTestFakeKeyEvent", "XK_Shift_L", 0)
                    ELSE UNCHANGED calls
    /\ pc' = "x_ctrl_up"
    /\ UNCHANGED << buildVars, parseVars, dpy, prop, win, hint, use_shift,
                    uinputVars, windowsVars, exit >>

\* Variant of main_fake_ctrl_release: True (press) is passed.
main_fake_ctrl_release_as_press ==
    XStep("x_ctrl_up", "x_flush", "XTestFakeKeyEvent", "XK_Control_L", 1)

\* XTestFakeKeyEvent(dpy, ctrl, False, CurrentTime);
main_fake_ctrl_release ==
    XStep("x_ctrl_up", "x_flush", "XTestFakeKeyEvent", "XK_Control_L", 0)

main_XFlush ==
    XStep("x_flush", "x_sleep4", "XFlush", "", 0)

main_usleep4 ==
    XStep("x_sleep4", "x_close", "usleep", "", 20000)

\* XCloseDisplay(dpy); return 0;
main_XCloseDisplay ==
    /\ binary = "linux" /\ pc = "x_close"
    /\ Log("XCloseDisplay", "", 0)
    /\ dpy' = "closed"
    /\ exit' = 0
    /\ pc' = "done"
    /\ UNCHANGED << buildVars, parseVars, prop, win, hint, use_shift,
                    uinputVars, windowsVars >>

(***************************************************************************)
(* linux-fast-paste.c: paste_via_uinput and emit                           *)
(***************************************************************************)
\* Variant of emit: a failed write() ends the run with close(fd) and status 4.
emit_fatal(from, to, code, val) ==
    /\ binary = "linux" /\ pc = from
    /\ \E ok \in BOOLEAN :
         IF ok
           THEN /\ Log("write", code, val)
                /\ pc' = to
                /\ UNCHANGED << fd, failedWrites, exit >>
           ELSE /\ calls' = calls \o << Call("write", code, val),
                                       Call("close", "/dev/uinput", 0) >>
                /\ failedWrites' = failedWrites + 1
                /\ fd' = "closed"
                /\ exit' = 4
                /\ pc' = "done"
    /\ UNCHANGED << buildVars, parseVars, dpy, prop, win, hint, use_shift,
                    dev, windowsVars >>

\* emit(fd, type, code, val): one write(); its failure is ignored.
emit(from, to, code, val) ==
    /\ binary = "linux" /\ pc = from
    /\ \E ok \in BOOLEAN :
         failedWrites' = IF ok THEN failedWrites ELSE failedWrites + 1
    /\ Log("write", code, val)
    /\ pc' = to
    /\ UNCHANGED << buildVars, parseVars, dpy, prop, win, hint, use_shift,
                    fd, dev, windowsVars, exit >>

\* int fd = open("/dev/uinput", ...); if (fd < 0) { fprintf(...); return 3; }
uinput_open ==
    /\ binary = "linux" /\ pc = "u_open"
    /\ \E ok \in BOOLEAN :
         IF ok
           THEN /\ Log("open", "/dev/uinput", 1)
                /\ fd' = "open"
                /\ pc' = "u_evbit"
                /\ UNCHANGED exit
           ELSE /\ calls' = calls \o << Call("open", "/dev/uinput", 0),
                                       Call("fprintf", "Cannot open /dev/uinput", 0) >>
                /\ fd' = "failed"
                /\ exit' = 3
                /\ pc' = "done"
    /\ UNCHANGED << buildVars, parseVars, dpy, prop, win, hint, use_shift,
                    dev, failedWrites, windowsVars >>

\* Variant of setup_ioctl: the failure branch returns 4 without close(fd).
setup_ioctl_no_close(from, to, request, created) ==
    /\ binary = "linux" /\ pc = from
    /\ \E ok \in BOOLEAN :
         IF ok
           THEN /\ Log("ioctl", request, 0)
                /\ dev' = IF created THEN "created" ELSE dev
                /\ pc' = to
                /\ UNCHANGED << fd, exit >>
           ELSE /\ Log("ioctl", request, -1)
                /\ exit' = 4
                /\ pc' = "done"
                /\ UNCHANGED << fd, dev >>
    /\ UNCHANGED << buildVars, parseVars, dpy, prop, win, hint, use_shift,
                    failedWrites, windowsVars >>

\* Variant of setup_ioctl: the result of ioctl is not tested.
setup_ioctl_unchecked(from, to, request, created) ==
    /\ binary = "linux" /\ pc = from
    /\ \E ok \in BOOLEAN :
         /\ Log("ioctl", request, IF ok THEN 0 ELSE -1)
         /\ dev' = IF created /\ ok THEN "created" ELSE dev
    /\ pc' = to
    /\ UNCHANGED << buildVars, parseVars, dpy, prop, win, hint, use_shift,
                    fd, failedWrites, windowsVars, exit >>

\* One operand of an `ioctl(...) < 0 || ...` condition whose body is
\* { close(fd); return 4; }.  The logged value is what ioctl returned.
\* created: the request creates the device.
setup_ioctl(from, to, request, created) ==
    /\ binary = "linux" /\ pc = from
    /\ \E ok \in BOOLEAN :
         IF ok
           THEN /\ Log("ioctl", request, 0)
                /\ dev' = IF created THEN "created" ELSE dev
                /\ pc' = to
                /\ UNCHANGED << fd, exit >>
           ELSE /\ calls' = calls \o << Call("ioctl", request, -1),
                                       Call("close", "/dev/uinput", 0) >>
                /\ fd' = "closed"
                /\ exit' = 4
                /\ pc' = "done"
                /\ UNCHANGED dev
    /\ UNCHANGED << buildVars, parseVars, dpy, prop, win, hint, use_shift,
                    failedWrites, windowsVars >>

uinput_set_evbit        == setup_ioctl("u_evbit", "u_keybit_ctrl", "UI_SET_EVBIT EV_KEY", FALSE)
uinput_set_keybit_ctrl  == setup_ioctl("u_keybit_ctrl", "u_keybit_shift", "UI_SET_KEYBIT KEY_LEFTCTRL", FALSE)
uinput_set_keybit_shift == setup_ioctl("u_keybit_shift", "u_keybit_v", "UI_SET_KEYBIT KEY_LEFTSHIFT", FALSE)
uinput_set_keybit_v     == setup_ioctl("u_keybit_v", "u_setup", "UI_SET_KEYBIT KEY_V", FALSE)
uinput_dev_setup        == setup_ioctl("u_setup", "u_create", "UI_DEV_SETUP", FALSE)
uinput_dev_create       == setup_ioctl("u_create", "u_sleep0", "UI_DEV_CREATE", TRUE)

uinput_usleep0 ==
    XStep("u_sleep0", "u_ctrl_down", "usleep", "", 50000)

uinput_emit_ctrl_press ==
    emit("u_ctrl_down", "u_ctrl_down_syn", "KEY_LEFTCTRL", 1)

\* Variant of uinput_emit_ctrl_press_syn: the SYN_REPORT is not written.
uinput_emit_ctrl_press_syn_skipped ==
    /\ binary = "linux" /\ pc = "u_ctrl_down_syn"
    /\ pc' = "u_if_shift_down"
    /\ UNCHANGED << buildVars, parseVars, dpy, prop, win, hint, use_shift,
                    uinputVars, windowsVars, exit, calls >>

uinput_emit_ctrl_press_syn ==
    emit("u_ctrl_down_syn", "u_if_shift_down", "SYN_REPORT", 0)

\* if (use_shift) { ... } around the Shift press.
uinput_if_shift_press ==
    /\ binary = "linux" /\ pc = "u_if_shift_down"
    /\ pc' = IF use_shift THEN "u_shift_down" ELSE "u_sleep1"
    /\ UNCHANGED << buildVars, parseVars, dpy, prop, win, hint, use_shift,
                    uinputVars, windowsVars, exit, calls >>

uinput_emit_shift_press ==
    emit("u_shift_down", "u_shift_down_syn", "KEY_LEFTSHIFT", 1)

uinput_emit_shift_press_syn ==
    emit("u_shift_down_syn", "u_sleep1", "SYN_REPORT", 0)

uinput_usleep1 ==
    XStep("u_sleep1", "u_v_down", "usleep", "", 8000)

uinput_emit_v_press ==
    emit("u_v_down", "u_v_down_syn", "KEY_V", 1)

uinput_emit_v_press_syn ==
    emit("u_v_down_syn", "u_sleep2", "SYN_REPORT", 0)

uinput_usleep2 ==
    XStep("u_sleep2", "u_v_up", "usleep", "", 8000)

uinput_emit_v_release ==
    emit("u_v_up", "u_v_up_syn", "KEY_V", 0)

uinput_emit_v_release_syn ==
    emit("u_v_up_syn", "u_sleep3", "SYN_REPORT", 0)

uinput_usleep3 ==
    XStep("u_sleep3", "u_if_shift_up", "usleep", "", 8000)

\* if (use_shift) { ... } around the Shift release.
uinput_if_shift_release ==
    /\ binary = "linux" /\ pc = "u_if_shift_up"
    /\ pc' = IF use_shift THEN "u_shift_up" ELSE "u_ctrl_up"
    /\ UNCHANGED << buildVars, parseVars, dpy, prop, win, hint, use_shift,
                    uinputVars, windowsVars, exit, calls >>

uinput_emit_shift_release ==
    emit("u_shift_up", "u_shift_up_syn", "KEY_LEFTSHIFT", 0)

uinput_emit_shift_release_syn ==
    emit("u_shift_up_syn", "u_ctrl_up", "SYN_REPORT", 0)

uinput_emit_ctrl_release ==
    emit("u_ctrl_up", "u_ctrl_up_syn", "KEY_LEFTCTRL", 0)

uinput_emit_ctrl_release_syn ==
    emit("u_ctrl_up_syn", "u_sleep4", "SYN_REPORT", 0)

uinput_usleep4 ==
    XStep("u_sleep4", "u_destroy", "usleep", "", 20000)

\* ioctl(fd, UI_DEV_DESTROY); the result is not looked at.
uinput_dev_destroy ==
    /\ binary = "linux" /\ pc = "u_destroy"
    /\ Log("ioctl", "UI_DEV_DESTROY", 0)
    /\ dev' = "destroyed"
    /\ pc' = "u_close"
    /\ UNCHANGED << buildVars, parseVars, dpy, prop, win, hint, use_shift,
                    fd, failedWrites, windowsVars, exit >>

\* close(fd); return 0;
uinput_close ==
    /\ binary = "linux" /\ pc = "u_close"
    /\ Log("close", "/dev/uinput", 0)
    /\ fd' = "closed"
    /\ exit' = 0
    /\ pc' = "done"
    /\ UNCHANGED << buildVars, parseVars, dpy, prop, win, hint, use_shift,
                    dev, failedWrites, windowsVars >>

(***************************************************************************)
(* windows-fast-paste.c                                                    *)
(***************************************************************************)
WStep(from, to, op, key, val) ==
    /\ binary = "windows" /\ pc = from
    /\ Log(op, key, val)
    /\ pc' = to
    /\ UNCHANGED << buildVars, i, linuxVars, windowsVars, exit >>

\* One iteration of the for loop over argv.
wmain_parse_arg ==
    /\ binary = "windows" /\ pc = "parse" /\ i <= Len(argv)
    /\ detectOnly' = IF argv[i] = "--detect-only" THEN TRUE ELSE detectOnly
    /\ i' = i + 1
    /\ UNCHANGED << buildVars, pc, linuxVars, hwnd, className, classLen,
                    isTerminal, result, sent, exit, calls >>

\* HWND hwnd = GetForegroundWindow(); if (!hwnd) { fprintf(...); return 2; }
wmain_GetForegroundWindow ==
    /\ binary = "windows" /\ pc = "parse" /\ i > Len(argv)
    /\ \E h \in {0, 1} :
         /\ hwnd' = h
         /\ IF h = 0
              THEN /\ calls' = calls \o << Call("GetForegroundWindow", "", 0),
                                          Call("fprintf", "ERROR: No foreground window found", 0) >>
                   /\ exit' = 2
                   /\ pc' = "done"
              ELSE /\ Log("GetForegroundWindow", "", h)
                   /\ pc' = "w_class"
                   /\ UNCHANGED exit
    /\ UNCHANGED << buildVars, i, linuxVars, detectOnly, className, classLen,
                    isTerminal, result, sent >>

\* Variant of wmain_GetClassNameA: classLen is not tested.
wmain_GetClassNameA_unchecked ==
    /\ binary = "windows" /\ pc = "w_class"
    /\ \E name \in WinClassNames :
         /\ className' = name
         /\ classLen' = Len(name)
         /\ Log("GetClassNameA", "", Len(name))
    /\ pc' = "w_classify"
    /\ UNCHANGED << buildVars, i, linuxVars, detectOnly, hwnd, isTerminal,
                    result, sent, exit >>

\* int classLen = GetClassNameA(hwnd, className, sizeof(className));
\* if (classLen == 0) { fprintf(...); return 1; }
wmain_GetClassNameA ==
    /\ binary = "windows" /\ pc = "w_class"
    /\ \E name \in WinClassNames :
         /\ className' = name
         /\ classLen' = Len(name)
         /\ IF Len(name) = 0
              THEN /\ calls' = calls \o << Call("GetClassNameA", "", 0),
                                          Call("fprintf", "ERROR: Could not get window class name", 0) >>
                   /\ exit' = 1
                   /\ pc' = "done"
              ELSE /\ Log("GetClassNameA", "", Len(name))
                   /\ pc' = "w_classify"
                   /\ UNCHANGED exit
    /\ UNCHANGED << buildVars, i, linuxVars, detectOnly, hwnd, isTerminal,
                    result, sent >>

\* BOOL isTerminal = IsTerminalClass(className);
wmain_classify ==
    /\ binary = "windows" /\ pc = "w_classify"
    /\ isTerminal' = IsTerminalClass(className)
    /\ pc' = "w_detect"
    /\ UNCHANGED << buildVars, i, linuxVars, detectOnly, hwnd, className,
                    classLen, result, sent, exit, calls >>

\* Variant of wmain_detect_only: the branch does not return.
wmain_detect_only_no_return ==
    /\ binary = "windows" /\ pc = "w_detect"
    /\ IF detectOnly
         THEN calls' = calls \o << Call("printf", "WINDOW_CLASS", classLen),
                                   Call("printf", "IS_TERMINAL", IF isTerminal THEN 1 ELSE 0),
                                   Call("fflush", "stdout", 0) >>
         ELSE UNCHANGED calls
    /\ pc' = "w_sleep"
    /\ UNCHANGED << buildVars, i, linuxVars, windowsVars, exit >>

\* if (detectOnly) { printf WINDOW_CLASS; printf IS_TERMINAL; fflush; return 0; }
wmain_detect_only ==
    /\ binary = "windows" /\ pc = "w_detect"
    /\ IF detectOnly
         THEN /\ calls' = calls \o << Call("printf", "WINDOW_CLASS", classLen),
                                     Call("printf", "IS_TERMINAL", IF isTerminal THEN 1 ELSE 0),
                                     Call("fflush", "stdout", 0) >>
              /\ exit' = 0
              /\ pc' = "done"
         ELSE /\ pc' = "w_sleep"
              /\ UNCHANGED << exit, calls >>
    /\ UNCHANGED << buildVars, i, linuxVars, windowsVars >>

wmain_Sleep5 ==
    WStep("w_sleep", "w_send", "Sleep", "", 5)

\* The INPUT array of SendPasteNormal: val 1 is key down, 0 is KEYEVENTF_KEYUP.
SendPasteNormal_inputs ==
    << Call("SendInput", "VK_CONTROL", 1),
       Call("SendInput", "V", 1),
       Call("SendInput", "V", 0),
       Call("SendInput", "VK_CONTROL", 0) >>

\* The INPUT array of SendPasteTerminal.
SendPasteTerminal_inputs ==
    << Call("SendInput", "VK_CONTROL", 1),
       Call("SendInput", "VK_SHIFT", 1),
       Call("SendInput", "V", 1),
       Call("SendInput", "V", 0),
       Call("SendInput", "VK_SHIFT", 0),
       Call("SendInput", "VK_CONTROL", 0) >>

\* result = SendPasteNormal();  UINT sent = SendInput(4, ...); return (sent == 4) ? 0 : 1;
SendPasteNormal ==
    /\ binary = "windows" /\ pc = "w_send" /\ ~isTerminal
    /\ calls' = calls \o SendPasteNormal_inputs
    /\ \E s \in 0..4 :
         /\ sent' = s
         /\ result' = IF s = 4 THEN 0 ELSE 1
    /\ pc' = "w_result"
    /\ UNCHANGED << buildVars, i, linuxVars, detectOnly, hwnd, className,
                    classLen, isTerminal, exit >>

\* Variant of SendPasteTerminal: sent is compared with 4.
SendPasteTerminal_compares4 ==
    /\ binary = "windows" /\ pc = "w_send" /\ isTerminal
    /\ calls' = calls \o SendPasteTerminal_inputs
    /\ \E s \in 0..6 :
         /\ sent' = s
         /\ result' = IF s = 4 THEN 0 ELSE 1
    /\ pc' = "w_result"
    /\ UNCHANGED << buildVars, i, linuxVars, detectOnly, hwnd, className,
                    classLen, isTerminal, exit >>

\* result = SendPasteTerminal();  UINT sent = SendInput(6, ...); return (sent == 6) ? 0 : 1;
SendPasteTerminal ==
    /\ binary = "windows" /\ pc = "w_send" /\ isTerminal
    /\ calls' = calls \o SendPasteTerminal_inputs
    /\ \E s \in 0..6 :
         /\ sent' = s
         /\ result' = IF s = 6 THEN 0 ELSE 1
    /\ pc' = "w_result"
    /\ UNCHANGED << buildVars, i, linuxVars, detectOnly, hwnd, className,
                    classLen, isTerminal, exit >>

\* if (result != 0) { fprintf(...); return 1; }
wmain_check_result ==
    /\ binary = "windows" /\ pc = "w_result"
    /\ IF result # 0
         THEN /\ Log("fprintf", "ERROR: SendInput failed", 0)
              /\ exit' = 1
              /\ pc' = "done"
         ELSE /\ pc' = "w_sleep2"
              /\ UNCHANGED << exit, calls >>
    /\ UNCHANGED << buildVars, i, linuxVars, windowsVars >>

wmain_Sleep20 ==
    WStep("w_sleep2", "w_ok", "Sleep", "", 20)

\* printf("PASTE_OK %s %s\n", ...); fflush(stdout); return 0;
wmain_paste_ok ==
    /\ binary = "windows" /\ pc = "w_ok"
    /\ calls' = calls \o << Call("printf", "PASTE_OK", IF isTerminal THEN 1 ELSE 0),
                            Call("fflush", "stdout", 0) >>
    /\ exit' = 0
    /\ pc' = "done"
    /\ UNCHANGED << buildVars, i, linuxVars, windowsVars >>

(***************************************************************************)
(* Specification                                                           *)
(***************************************************************************)
Next ==
    \/ main_parse_arg
    \/ main_select_backend
    \/ main_XOpenDisplay
    \/ main_XTestQueryExtension
    \/ main_activate_check
    \/ activate_XInternAtom
    \/ activate_XSendEvent
    \/ activate_XFlush
    \/ activate_usleep
    \/ activate_XSetInputFocus
    \/ activate_XFlush2
    \/ activate_usleep2
    \/ main_resolve
    \/ get_active_window_XInternAtom
    \/ get_active_window_XGetWindowProperty
    \/ get_active_window_XGetInputFocus
    \/ main_use_shift
    \/ main_classify
    \/ main_XKeysymToKeycode
    \/ main_fake_ctrl_press
    \/ main_fake_shift_press
    \/ main_usleep1
    \/ main_fake_v_press
    \/ main_usleep2
    \/ main_fake_v_release
    \/ main_usleep3
    \/ main_fake_shift_release
    \/ main_fake_ctrl_release
    \/ main_XFlush
    \/ main_usleep4
    \/ main_XCloseDisplay
    \/ uinput_open
    \/ uinput_set_evbit
    \/ uinput_set_keybit_ctrl
    \/ uinput_set_keybit_shift
    \/ uinput_set_keybit_v
    \/ uinput_dev_setup
    \/ uinput_dev_create
    \/ uinput_usleep0
    \/ uinput_emit_ctrl_press
    \/ uinput_emit_ctrl_press_syn
    \/ uinput_if_shift_press
    \/ uinput_emit_shift_press
    \/ uinput_emit_shift_press_syn
    \/ uinput_usleep1
    \/ uinput_emit_v_press
    \/ uinput_emit_v_press_syn
    \/ uinput_usleep2
    \/ uinput_emit_v_release
    \/ uinput_emit_v_release_syn
    \/ uinput_usleep3
    \/ uinput_if_shift_release
    \/ uinput_emit_shift_release
    \/ uinput_emit_shift_release_syn
    \/ uinput_emit_ctrl_release
    \/ uinput_emit_ctrl_release_syn
    \/ uinput_usleep4
    \/ uinput_dev_destroy
    \/ uinput_close
    \/ wmain_parse_arg
    \/ wmain_GetForegroundWindow
    \/ wmain_GetClassNameA
    \/ wmain_classify
    \/ wmain_detect_only
    \/ wmain_Sleep5
    \/ SendPasteNormal
    \/ SendPasteTerminal
    \/ wmain_check_result
    \/ wmain_Sleep20
    \/ wmain_paste_ok

Spec == Init /\ [][Next]_vars

\* WM_CLASS strings for the runs that exercise the classifier.
ClassifyNames ==
    { NullStr,
      Str(<<>>),
      Str(<<"X", "T", "e", "r", "m">>),
      Str(<<"f", "i", "r", "e", "f", "o", "x">>),
      Str(<<"g", "n", "o", "m", "e", "-", "t", "e", "r", "m", "i", "n", "a", "l", "-", "s", "e", "r", "v", "e", "r">>),
      Str(<<"K", "I", "T", "T", "Y">>),
      Str(<<"E", "m", "a", "c", "s">>),
      Str(<<"P", "o", "s", "t", "m", "a", "n">>),
      Str(<<"W", "e", "z", "t", "e", "r">>),
      Str(<<"o", "r", "g", ".", "w", "e", "z", "f", "u", "r", "l", "o", "n", "g", ".", "w", "e", "z", "t", "e", "r", "m">>),
      Str(<<"N", "a", "v", "i", "g", "a", "t", "o", "r">>),
      Str(<<"U", "R", "x", "v", "t">>) }

ClassifyHints ==
    { [NoHint EXCEPT !.status = "failed"] } \cup
    { Hint(c, n) : c \in ClassifyNames, n \in ClassifyNames }

\* The linux binary started without arguments on a desktop whose focused
\* window has one of the class hints above.
InitClassify ==
    /\ binary = "linux"
    /\ argv = << >>
    /\ haveUinput = TRUE
    /\ wm_class \in ClassifyHints
    /\ pc = "parse"
    /\ i = 1
    /\ force_terminal = FALSE
    /\ use_uinput = FALSE
    /\ target_window = None
    /\ dpy = "none"
    /\ prop = FALSE
    /\ win = None
    /\ hint = NoHint
    /\ use_shift = FALSE
    /\ fd = "none"
    /\ dev = "none"
    /\ failedWrites = 0
    /\ detectOnly = FALSE
    /\ hwnd = 0
    /\ className = <<>>
    /\ classLen = 0
    /\ isTerminal = FALSE
    /\ result = 0
    /\ sent = -1
    /\ exit = -1
    /\ calls = <<>>

\* main() from its start to the end of the classification.
NextClassify ==
    \/ main_select_backend
    \/ main_XOpenDisplay
    \/ main_XTestQueryExtension
    \/ main_activate_check
    \/ main_resolve
    \/ get_active_window_XInternAtom
    \/ get_active_window_XGetWindowProperty
    \/ get_active_window_XGetInputFocus
    \/ main_use_shift
    \/ main_classify

SpecClassify == InitClassify /\ [][NextClassify]_vars

\* Both programs are single-threaded and every call returns: a step that
\* can be taken is taken.
FairSpec == Spec /\ WF_vars(Next)

(***************************************************************************)
(* Vocabulary of the properties                                            *)
(***************************************************************************)
\* The calls that synthesize a key event (a SYN_REPORT marker is not one).
IsKeyEvent(c) ==
    \/ c.op = "XTestFakeKeyEvent"
    \/ c.op = "write" /\ c.key # "SYN_REPORT"
    \/ c.op = "SendInput"

\* The key a backend's key symbol, key code or virtual-key code stands for.
KeyName(c) ==
    CASE c.key \in {"XK_Control_L", "KEY_LEFTCTRL", "VK_CONTROL"} -> "ctrl"
      [] c.key \in {"XK_Shift_L", "KEY_LEFTSHIFT", "VK_SHIFT"} -> "shift"
      [] c.key \in {"XK_v", "KEY_V", "V"} -> "v"
      [] OTHER -> "other"

\* The key sequence synthesized so far, in order.
KeySeq == SelectSeq(calls, IsKeyEvent)

\* Event p of key sequence ks is a press (release) of key k.
PressAt(ks, p, k)   == KeyName(ks[p]) = k /\ ks[p].val = 1
ReleaseAt(ks, p, k) == KeyName(ks[p]) = k /\ ks[p].val = 0

\* The number of presses (releases) of key k among the first n events of ks.
RECURSIVE Presses(_, _, _)
Presses(ks, n, k) ==
    IF n = 0 THEN 0
    ELSE Presses(ks, n - 1, k) + (IF PressAt(ks, n, k) THEN 1 ELSE 0)

RECURSIVE Releases(_, _, _)
Releases(ks, n, k) ==
    IF n = 0 THEN 0
    ELSE Releases(ks, n - 1, k) + (IF ReleaseAt(ks, n, k) THEN 1 ELSE 0)

IsPress(p, k)   == PressAt(KeySeq, p, k)
IsRelease(p, k) == ReleaseAt(KeySeq, p, k)

ShiftUsed == \E p \in 1..Len(KeySeq) : KeyName(KeySeq[p]) = "shift"

Keys == {"ctrl", "shift", "v"}

\* The first position of calls that satisfies P(_), 0 if there is none.
FirstIndex(P(_)) ==
    IF \E p \in 1..Len(calls) : P(calls[p])
      THEN CHOOSE p \in 1..Len(calls) :
             P(calls[p]) /\ \A q \in 1..(p - 1) : ~P(calls[q])
      ELSE 0

\* Word p of the linux command line is consumed as the value of --window.
RECURSIVE IsValueSlot(_)
IsValueSlot(p) ==
    /\ p > 1
    /\ argv[p - 1] = "--window"
    /\ ~IsValueSlot(p - 1)

\* The flag is on the linux command line (and is not the value of --window).
FlagGiven(flag) ==
    \E p \in 1..Len(argv) : argv[p] = flag /\ ~IsValueSlot(p)

\* Positions of a --window flag that has a value.
WindowFlagAt == {p \in 1..(Len(argv) - 1) : argv[p] = "--window" /\ ~IsValueSlot(p)}

\* The window id word of the last --window <id>.
WindowIdWord == argv[(CHOOSE p \in WindowFlagAt : \A q \in WindowFlagAt : q <= p) + 1]

(***************************************************************************)
(* Properties                                                              *)
(***************************************************************************)
\* C1: in every synthesized key sequence of every backend, V is pressed only
\* after Ctrl has been pressed (and after Shift has been pressed, when Shift
\* is part of the sequence), and Ctrl and Shift are released only after V
\* has been released.
C1_ModifierNesting ==
    LET ks == KeySeq
        shiftUsed == \E p \in 1..Len(ks) : KeyName(ks[p]) = "shift"
    IN  \A p \in 1..Len(ks) :
            /\ PressAt(ks, p, "v") =>
                 /\ \E q \in 1..(p - 1) : PressAt(ks, q, "ctrl")
                 /\ shiftUsed => \E q \in 1..(p - 1) : PressAt(ks, q, "shift")
            /\ ReleaseAt(ks, p, "ctrl") => \E q \in 1..(p - 1) : ReleaseAt(ks, q, "v")
            /\ ReleaseAt(ks, p, "shift") => \E q \in 1..(p - 1) : ReleaseAt(ks, q, "v")

\* C1 witness: a finished uinput run that synthesized Ctrl+Shift+V.
C1_Witness ==
    /\ pc = "done" /\ binary = "linux" /\ use_uinput
    /\ Len(KeySeq) = 6 /\ IsPress(3, "v") /\ IsRelease(6, "ctrl")

\* C2: every key has as many presses as releases once the program is done,
\* and each release of a key comes after a press of that key that no
\* earlier release has matched.
C2_PressReleaseBalanced ==
    LET ks == KeySeq
    IN  /\ \A p \in 1..Len(ks) : \A k \in Keys :
             ReleaseAt(ks, p, k) => Presses(ks, p - 1, k) > Releases(ks, p - 1, k)
        /\ pc = "done" =>
             \A k \in Keys : Presses(ks, Len(ks), k) = Releases(ks, Len(ks), k)

\* C2 witness: a finished XTest run that synthesized Ctrl+Shift+V.
C2_Witness ==
    /\ pc = "done" /\ binary = "linux" /\ ~use_uinput
    /\ Len(KeySeq) = 6 /\ ShiftUsed

\* C3: once /dev/uinput has been opened, the program does not finish with the
\* descriptor open; a created device is destroyed before the descriptor is
\* closed.
C3_DescriptorClosed ==
    /\ (pc = "done" /\ \E p \in 1..Len(calls) : calls[p].op = "open" /\ calls[p].val = 1)
          => /\ fd = "closed"
             /\ \E p \in 1..Len(calls) : calls[p].op = "close"
    /\ fd = "closed" => dev # "created"
    /\ LET created(c)   == c.op = "ioctl" /\ c.key = "UI_DEV_CREATE" /\ c.val = 0
           destroyed(c) == c.op = "ioctl" /\ c.key = "UI_DEV_DESTROY"
           closed(c)    == c.op = "close"
       IN  (FirstIndex(created) > 0 /\ FirstIndex(closed) > 0) =>
              /\ FirstIndex(destroyed) > FirstIndex(created)
              /\ FirstIndex(destroyed) < FirstIndex(closed)

\* C3 witness: UI_DEV_CREATE failed and the run is over.
C3_Witness ==
    /\ pc = "done" /\ fd = "closed" /\ dev = "none"
    /\ \E p \in 1..Len(calls) :
         calls[p].op = "ioctl" /\ calls[p].key = "UI_DEV_CREATE" /\ calls[p].val = -1

\* A setup ioctl returned < 0.
SetupIoctlFailed ==
    \E p \in 1..Len(calls) : calls[p].op = "ioctl" /\ calls[p].val = -1

\* C4: if a setup ioctl fails, the exit status is 4 and no key or sync event
\* has been written to the device.
C4_SetupFailureAborts ==
    SetupIoctlFailed =>
        /\ pc = "done" /\ exit = 4
        /\ \A p \in 1..Len(calls) : calls[p].op # "write"

\* C4 witness: the third UI_SET_KEYBIT failed.
C4_Witness ==
    /\ exit = 4
    /\ calls[Len(calls) - 1] = Call("ioctl", "UI_SET_KEYBIT KEY_V", -1)

\* The selected backend ran its whole key sequence.
WholeSequenceRan ==
    /\ Len(KeySeq) \in {4, 6}
    /\ IsRelease(Len(KeySeq), "ctrl")

\* C5: the linux exit status is one of 0..4, and each value is returned
\* exactly in its documented case.
C5_LinuxExitTaxonomy ==
    binary = "linux" =>
        /\ exit \in {-1, 0, 1, 2, 3, 4}
        /\ (exit # -1) = (pc = "done")
        /\ pc = "done" =>
             /\ (exit = 1) = (dpy = "failed")
             /\ (exit = 2) = (\E p \in 1..Len(calls) :
                                 /\ calls[p] = Call("XTestQueryExtension", "", 0)
                                 /\ \E q \in 1..(p - 1) : calls[q] = Call("XOpenDisplay", "", 1))
             /\ (exit = 3) = (FlagGiven("--uinput") /\ (~haveUinput \/ fd = "failed"))
             /\ (exit = 4) = SetupIoctlFailed
             /\ (exit = 0) = WholeSequenceRan

\* C5 witness: built without HAVE_UINPUT and run with --uinput.
C5_Witness ==
    /\ binary = "linux" /\ pc = "done" /\ exit = 3 /\ ~haveUinput

\* The activator ran on window w before the first key event: the activation
\* client message was sent, then the input focus was set, then keys came.
ActivatedBeforeKeys(w) ==
    LET sendmsg(c)  == c.op = "XSendEvent" /\ c.val = w
        setfocus(c) == c.op = "XSetInputFocus" /\ c.val = w
    IN  /\ FirstIndex(sendmsg) > 0
        /\ FirstIndex(setfocus) > FirstIndex(sendmsg)
        /\ FirstIndex(IsKeyEvent) > FirstIndex(setfocus)

\* C6 as stated: whenever the linux binary is run with --window <id> (the
\* id of a window, so not None) and synthesizes keys, the activator has run
\* on that window before the first key event, whichever backend is selected.
C6_ActivationBeforeKeys_AnyBackend ==
    (/\ binary = "linux"
     /\ WindowFlagAt # {}
     /\ strtoul(WindowIdWord) # None
     /\ KeySeq # <<>>)
        => ActivatedBeforeKeys(strtoul(WindowIdWord))

\* C6 amended: whenever the linux binary is run with --window <id> (the id
\* of a window, so not None) and without --uinput, and synthesizes keys, the
\* activator has run on that window before the first key event.
C6_ActivationBeforeKeys ==
    (/\ binary = "linux"
     /\ WindowFlagAt # {}
     /\ strtoul(WindowIdWord) # None
     /\ ~FlagGiven("--uinput")
     /\ KeySeq # <<>>)
        => ActivatedBeforeKeys(strtoul(WindowIdWord))

\* C6 witness: --window 0x11 on the display-server backend, keys synthesized.
C6_Witness ==
    /\ binary = "linux" /\ pc = "done" /\ exit = 0
    /\ WindowFlagAt # {} /\ target_window = 17 /\ ~use_uinput
    /\ KeySeq # <<>>

\* The class hint classifies as a terminal emulator.
HintIsTerminal(h) ==
    h.status = "ok" /\ (is_terminal(h.res_class) \/ is_terminal(h.res_name))

\* C7 as stated: in a linux run without --terminal that synthesized its
\* keys, on either backend, Shift is part of the sequence exactly when the
\* class or instance name of the window the keys go to classifies as a
\* terminal.
C7_ShiftIffTerminal_AnyBackend ==
    (/\ binary = "linux" /\ pc = "done" /\ exit = 0
     /\ ~FlagGiven("--terminal")
     /\ (use_uinput \/ win # None))
        => (ShiftUsed <=> HintIsTerminal(wm_class))

\* C7 amended: in a display-server run without --terminal that synthesized
\* its keys, Shift is part of the sequence exactly when a window was
\* resolved, its class hint was read from that window, and the class or
\* instance name classifies as a terminal; in a virtual-device run without
\* --terminal Shift is never part of the sequence and no class is read.
C7_ShiftIffTerminal ==
    (binary = "linux" /\ pc = "done" /\ exit = 0 /\ ~FlagGiven("--terminal"))
        => IF FlagGiven("--uinput")
             THEN ~ShiftUsed /\ hint.status = "unqueried"
             ELSE ShiftUsed <=>
                    /\ win # None
                    /\ \E p \in 1..Len(calls) : calls[p] = Call("XGetClassHint", "", win)
                    /\ hint = wm_class
                    /\ HintIsTerminal(hint)

\* C7 witness: a display-server run without --terminal whose window has a
\* terminal instance name only, and that synthesized Ctrl+Shift+V.
C7_Witness ==
    /\ binary = "linux" /\ pc = "done" /\ exit = 0
    /\ ~FlagGiven("--terminal") /\ ~use_uinput
    /\ ~is_terminal(hint.res_class) /\ is_terminal(hint.res_name)
    /\ ShiftUsed

\* C8: with --terminal the class hint is never queried, every V press has a
\* Shift press before it, and a finished sequence contains Shift.
C8_ForceTerminal ==
    (binary = "linux" /\ FlagGiven("--terminal")) =>
        /\ hint.status = "unqueried"
        /\ \A p \in 1..Len(calls) : calls[p].op # "XGetClassHint"
        /\ \A p \in 1..Len(KeySeq) :
             IsPress(p, "v") => \E q \in 1..(p - 1) : IsPress(q, "shift")
        /\ (pc = "done" /\ exit = 0) => (ShiftUsed /\ Len(KeySeq) = 6)

\* C8 witness: --terminal on the display-server backend, the window is not a
\* terminal, Ctrl+Shift+V was synthesized.
C8_Witness ==
    /\ binary = "linux" /\ pc = "done" /\ exit = 0
    /\ FlagGiven("--terminal") /\ ~use_uinput
    /\ win # None /\ ~HintIsTerminal(wm_class)
    /\ ShiftUsed

Printed(tag) == \E p \in 1..Len(calls) : calls[p].op = "printf" /\ calls[p].key = tag

\* C9: on windows, when SendInput accepts fewer events than submitted the
\* exit status is 1, PASTE_OK is never printed and the array is submitted
\* only once; PASTE_OK and status 0 after a submission mean that every
\* event was accepted.
C9_PartialSubmissionFails ==
    (binary = "windows" /\ sent # -1) =>
        LET n == IF ShiftUsed THEN 6 ELSE 4
        IN  /\ Len(KeySeq) = n
            /\ sent < n => /\ ~Printed("PASTE_OK")
                           /\ pc = "done" => exit = 1
            /\ Printed("PASTE_OK") => sent = n
            /\ (pc = "done" /\ exit = 0) => (sent = n /\ Printed("PASTE_OK"))
            /\ (pc = "done" /\ sent = n) => exit = 0

\* C9 witness: five of the six events of Ctrl+Shift+V were accepted.
C9_Witness ==
    /\ binary = "windows" /\ pc = "done"
    /\ Len(KeySeq) = 6 /\ sent = 5 /\ exit = 1

DetectOnlyGiven == \E p \in 1..Len(argv) : argv[p] = "--detect-only"

\* The two lines of --detect-only were printed, in order, after resolution.
DetectLinesPrinted ==
    LET fg(c)   == c.op = "GetForegroundWindow"
        cls(c)  == c.op = "GetClassNameA"
        wcl(c)  == c = Call("printf", "WINDOW_CLASS", Len(className))
        term(c) == c = Call("printf", "IS_TERMINAL", IF IsTerminalClass(className) THEN 1 ELSE 0)
    IN  /\ FirstIndex(fg) > 0
        /\ FirstIndex(cls) > FirstIndex(fg)
        /\ FirstIndex(wcl) > FirstIndex(cls)
        /\ FirstIndex(term) > FirstIndex(wcl)

\* C10 as stated: a windows run with --detect-only ends with status 0, has
\* printed WINDOW_CLASS and IS_TERMINAL, and has submitted no input event.
C10_DetectOnly_Always ==
    (binary = "windows" /\ DetectOnlyGiven /\ pc = "done") =>
        /\ exit = 0
        /\ DetectLinesPrinted
        /\ KeySeq = <<>>

\* C10 amended: a windows run with --detect-only never submits an input
\* event; when a foreground window with a non-empty class name exists it
\* ends with status 0 having printed WINDOW_CLASS and IS_TERMINAL, otherwise
\* it ends with status 2 (no window) or 1 (no class name) and prints neither.
C10_DetectOnly ==
    (binary = "windows" /\ DetectOnlyGiven) =>
        /\ KeySeq = <<>> /\ sent = -1
        /\ pc = "done" =>
             IF hwnd # 0 /\ classLen # 0
               THEN exit = 0 /\ DetectLinesPrinted
               ELSE /\ exit = (IF hwnd = 0 THEN 2 ELSE 1)
                    /\ ~Printed("WINDOW_CLASS") /\ ~Printed("IS_TERMINAL")

\* C10 witness: --detect-only on a console window.
C10_Witness ==
    /\ binary = "windows" /\ DetectOnlyGiven /\ pc = "done" /\ exit = 0
    /\ isTerminal /\ Printed("IS_TERMINAL")

\* The call was made with this result.
Called(op, val) == \E p \in 1..Len(calls) : calls[p].op = op /\ calls[p].val = val

\* The call was made.
CalledAny(op) == \E p \in 1..Len(calls) : calls[p].op = op

\* C11: on windows, without a foreground window the run ends at once with
\* status 2: no class name is read, nothing is classified, no input event
\* is submitted; with a foreground window whose class name is empty it ends
\* at once with status 1: nothing is classified, no input event is submitted.
C11_WindowsResolutionFailures ==
    binary = "windows" =>
        /\ Called("GetForegroundWindow", 0) =>
             /\ pc = "done" /\ exit = 2
             /\ ~CalledAny("GetClassNameA")
             /\ ~isTerminal /\ ~CalledAny("printf")
             /\ KeySeq = <<>> /\ sent = -1
        /\ Called("GetClassNameA", 0) =>
             /\ pc = "done" /\ exit = 1
             /\ hwnd # 0
             /\ ~isTerminal /\ ~CalledAny("printf")
             /\ KeySeq = <<>> /\ sent = -1
        /\ pc \in {"w_classify", "w_detect", "w_sleep", "w_send", "w_result", "w_sleep2", "w_ok"}
             => hwnd # 0 /\ classLen > 0

\* C11 witness: a foreground window whose class name is empty.
C11_Witness ==
    /\ binary = "windows" /\ pc = "done" /\ exit = 1
    /\ hwnd # 0 /\ classLen = 0 /\ Called("GetClassNameA", 0)

LowerStr(s) == [k \in 1..Len(s) |-> ToLower(s[k])]

\* The registry entries as a set: their order is forgotten.
EntrySet(registry) == {registry[k] : k \in 1..Len(registry)}

\* C13: the windows classification is true exactly when the whole class
\* name equals some registry entry up to letter case; a name that contains
\* an entry as a proper part, or is a proper prefix of one, is not a terminal.
C13_WindowsExactMatch ==
    LET entries == EntrySet(TERMINAL_CLASSES)
        name == LowerStr(className)
        equalsEntry == \E e \in entries : name = LowerStr(e)
        containsEntry ==
            \E e \in entries : \E a \in 1..Len(name) : \E b \in a..Len(name) :
                SubSeq(name, a, b) = LowerStr(e)
        prefixOfEntry ==
            \E e \in entries :
                Len(name) < Len(e) /\ SubSeq(LowerStr(e), 1, Len(name)) = name
    IN  (/\ binary = "windows"
         /\ pc \in {"w_detect", "w_sleep", "w_send", "w_result", "w_sleep2", "w_ok", "done"}
         /\ hwnd # 0 /\ classLen > 0)
            => /\ isTerminal = equalsEntry
               /\ ((containsEntry \/ prefixOfEntry) /\ ~equalsEntry) => ~isTerminal

\* C13 witness: the class name kitty-x, which contains the entry kitty, was
\* classified as not a terminal.
C13_Witness ==
    /\ binary = "windows" /\ pc = "done" /\ exit = 0
    /\ className = <<"k", "i", "t", "t", "y", "-", "x">>
    /\ ~isTerminal

\* The value logged with the last call of op, None when op was not called.
LastVal(op) ==
    IF CalledAny(op)
      THEN calls[CHOOSE p \in 1..Len(calls) :
                   calls[p].op = op /\ \A q \in (p + 1)..Len(calls) : calls[q].op # op].val
      ELSE None

\* get_active_window() was called and has returned.
ResolverReturned ==
    /\ binary = "linux"
    /\ pc \notin {"gaw_atom", "gaw_prop", "gaw_focus"}
    /\ CalledAny("XGetWindowProperty") \/ CalledAny("XGetInputFocus")

\* The active-window property exists, was read and holds a window.
PropertyHoldsWindow ==
    /\ Called("XInternAtom", 1)
    /\ \E p \in 1..Len(calls) :
         /\ calls[p].op = "XGetWindowProperty"
         /\ calls[p].key = "Success, 1 item"
         /\ calls[p].val # None

\* C14: the resolver returns the window of the root window's active-window
\* property when the atom exists, the read succeeds and the value is a
\* window; in every other case it returns what the input-focus query
\* returned; so it returns None only when neither query gave a window.
C14_ResolverFallback ==
    ResolverReturned =>
        /\ IF PropertyHoldsWindow
             THEN win = LastVal("XGetWindowProperty") /\ ~CalledAny("XGetInputFocus")
             ELSE win = LastVal("XGetInputFocus") /\ CalledAny("XGetInputFocus")
        /\ win = None =>
             /\ LastVal("XGetWindowProperty") = None
             /\ Called("XGetInputFocus", None)

\* C14 witness: the property was read successfully but holds the null
\* window, and the input-focus query supplied window 18.
C14_Witness ==
    /\ ResolverReturned
    /\ \E p \in 1..Len(calls) :
         calls[p] = Call("XGetWindowProperty", "Success, 1 item", None)
    /\ win = 18

\* C15: every run of the activator sends the activation client message,
\* flushes, waits, and then sets the input focus to the same window: a
\* focus-set is directly preceded by message, flush and wait, and a sent
\* message is followed by flush, wait and the focus-set in every case.
C15_ActivatorOrder ==
    /\ \A p \in 1..Len(calls) :
         calls[p].op = "XSetInputFocus" =>
           /\ p > 3
           /\ calls[p - 3] = Call("XSendEvent", "_NET_ACTIVE_WINDOW", calls[p].val)
           /\ calls[p - 2] = Call("XFlush", "", 0)
           /\ calls[p - 1] = Call("usleep", "", 50000)
    /\ \A p \in 1..Len(calls) :
         calls[p].op = "XSendEvent" =>
           /\ Len(calls) >= p + 1 => calls[p + 1] = Call("XFlush", "", 0)
           /\ Len(calls) >= p + 2 => calls[p + 2] = Call("usleep", "", 50000)
           /\ Len(calls) >= p + 3 =>
                calls[p + 3] = Call("XSetInputFocus", "RevertToParent", calls[p].val)
           /\ Len(calls) < p + 3 => pc \in {"act_flush", "act_sleep", "act_focus"}

\* C15 witness: the activator has just set the input focus to window 17.
C15_Witness ==
    /\ pc = "act_flush2"
    /\ calls[Len(calls)] = Call("XSetInputFocus", "RevertToParent", 17)
    /\ Called("XSendEvent", 17)

IsWrite(c) == c.op = "write"

\* The events written to the device so far, in order.
Writes == SelectSeq(calls, IsWrite)

\* C16: on the virtual device every key event is directly followed by a
\* SYN_REPORT event, and events are written only after UI_DEV_CREATE has
\* succeeded and before UI_DEV_DESTROY.
C16_SyncAfterEachKey ==
    /\ \A p \in 1..Len(calls) :
         calls[p].op = "write" =>
           /\ \E q \in 1..(p - 1) : calls[q] = Call("ioctl", "UI_DEV_CREATE", 0)
           /\ \A q \in 1..(p - 1) : calls[q].key # "UI_DEV_DESTROY"
           /\ calls[p].key # "SYN_REPORT" =>
                IF p < Len(calls)
                  THEN calls[p + 1] = Call("write", "SYN_REPORT", 0)
                  ELSE pc \in {"u_ctrl_down_syn", "u_shift_down_syn", "u_v_down_syn",
                               "u_v_up_syn", "u_shift_up_syn", "u_ctrl_up_syn"}
    /\ LET ws == Writes
       IN  \A p \in 1..Len(ws) : (ws[p].key = "SYN_REPORT") = (p % 2 = 0)
    /\ CalledAny("write") => dev # "none"
    /\ dev = "destroyed" => Len(Writes) % 2 = 0

\* C16 witness: the V press has been written and its SYN_REPORT is next.
C16_Witness ==
    /\ pc = "u_v_down_syn"
    /\ calls[Len(calls)] = Call("write", "KEY_V", 1)
    /\ dev = "created"

\* The events of the virtual-device sequence, in the order of section 4.5.
ExpectedWrites(shift) ==
    LET syn == << Call("write", "SYN_REPORT", 0) >>
        key(code, val) == << Call("write", code, val) >> \o syn
    IN  key("KEY_LEFTCTRL", 1)
          \o (IF shift THEN key("KEY_LEFTSHIFT", 1) ELSE << >>)
          \o key("KEY_V", 1)
          \o key("KEY_V", 0)
          \o (IF shift THEN key("KEY_LEFTSHIFT", 0) ELSE << >>)
          \o key("KEY_LEFTCTRL", 0)

C18_DisplayBackendFailsClosed ==
    binary = "linux" =>
        /\ dpy = "failed" =>
             /\ pc = "done" /\ exit = 1
             /\ ~CalledAny("XSendEvent") /\ ~CalledAny("XSetInputFocus")
             /\ KeySeq = <<>>
        /\ Called("XTestQueryExtension", 0) =>
             /\ pc = "done" /\ exit = 2
             /\ ~CalledAny("XSendEvent") /\ ~CalledAny("XSetInputFocus")
             /\ KeySeq = <<>>
             /\ dpy = "closed"
             /\ calls[Len(calls)] = Call("XCloseDisplay", "", 0)

\* C18 witness: --window 0x11 was given and the extension is missing.
C18_Witness ==
    /\ binary = "linux" /\ pc = "done" /\ exit = 2
    /\ target_window = 17 /\ dpy = "closed"

\* The window get_active_window() returned.
ResolvedWindow ==
    IF PropertyHoldsWindow THEN LastVal("XGetWindowProperty")
                           ELSE LastVal("XGetInputFocus")

\* C19: on the display-server backend, with --window <id> for an id other
\* than 0 the resolver is never called and only window <id> is classified;
\* with no --window, or an id that parses to 0, no activation message is
\* sent, the input focus is never set, and only the window the resolver
\* returned is classified.
C19_ExplicitWindowOrResolver ==
    (binary = "linux" /\ ~FlagGiven("--uinput")) =>
        IF WindowFlagAt # {} /\ strtoul(WindowIdWord) # 0
          THEN /\ pc \notin {"gaw_atom", "gaw_prop", "gaw_focus"}
               /\ ~CalledAny("XGetWindowProperty") /\ ~CalledAny("XGetInputFocus")
               /\ \A p \in 1..Len(calls) :
                    calls[p].op = "XGetClassHint" => calls[p].val = strtoul(WindowIdWord)
               /\ KeySeq # <<>> => win = strtoul(WindowIdWord)
          ELSE /\ pc \notin {"act_atom", "act_send", "act_flush", "act_sleep",
                             "act_focus", "act_flush2", "act_sleep2"}
               /\ ~CalledAny("XSendEvent") /\ ~CalledAny("XSetInputFocus")
               /\ \A p \in 1..Len(calls) :
                    calls[p].op = "XGetClassHint" =>
                      ResolverReturned /\ calls[p].val = ResolvedWindow
               /\ KeySeq # <<>> => ResolverReturned /\ win = ResolvedWindow

\* C19 witness: --window 0 was given, the resolver returned window 18 and
\* its class hint was read.
C19_Witness ==
    /\ binary = "linux" /\ pc = "done" /\ exit = 0
    /\ WindowFlagAt # {} /\ WindowIdWord = "0"
    /\ Called("XGetClassHint", 18)

\* The name is a string that contains the registry entry, letter case aside.
ContainsEntry(name, e) ==
    /\ ~name.isNull
    /\ \E a \in 1..Len(name.str) : \E b \in a..Len(name.str) :
         LowerStr(SubSeq(name.str, a, b)) = LowerStr(e)

\* C12: the classification made from a class hint is true exactly when the
\* class or the instance name contains some entry of the registry, taken as
\* a set, as a substring up to letter case; it is false when neither does,
\* and false for names that are NULL or empty and for a missing hint.
C12_LinuxSubstringMatch ==
    (/\ binary = "linux"
     /\ hint.status # "unqueried"
     /\ pc \notin {"x_classify"})
        => /\ hint.status = "ok" =>
                use_shift = \E e \in EntrySet(terminal_classes) :
                               \/ ContainsEntry(hint.res_class, e)
                               \/ ContainsEntry(hint.res_name, e)
           /\ hint.status = "failed" => ~use_shift
           /\ (/\ hint.res_class.isNull \/ hint.res_class.str = <<>>
               /\ hint.res_name.isNull \/ hint.res_name.str = <<>>) => ~use_shift

\* C12 witness: class name Postman (it contains the entry st) with a NULL
\* instance name was classified as a terminal.
C12_Witness ==
    /\ pc = "x_keycodes"
    /\ hint = Hint(Str(<<"P", "o", "s", "t", "m", "a", "n">>), NullStr)
    /\ use_shift

\* The positions of both programs, each program's in the order of its text.
ProgramOrder ==
    << "parse",
       "u_open", "u_evbit", "u_keybit_ctrl", "u_keybit_shift", "u_keybit_v",
       "u_setup", "u_create", "u_sleep0", "u_ctrl_down", "u_ctrl_down_syn",
       "u_if_shift_down", "u_shift_down", "u_shift_down_syn", "u_sleep1",
       "u_v_down", "u_v_down_syn", "u_sleep2", "u_v_up", "u_v_up_syn",
       "u_sleep3", "u_if_shift_up", "u_shift_up", "u_shift_up_syn",
       "u_ctrl_up", "u_ctrl_up_syn", "u_sleep4", "u_destroy", "u_close",
       "x_open", "x_query", "x_activate",
       "act_atom", "act_send", "act_flush", "act_sleep", "act_focus",
       "act_flush2", "act_sleep2",
       "x_resolve", "gaw_atom", "gaw_prop", "gaw_focus",
       "x_use_shift", "x_classify", "x_keycodes",
       "x_ctrl_down", "x_shift_down", "x_sleep1", "x_v_down", "x_sleep2",
       "x_v_up", "x_sleep3", "x_shift_up", "x_ctrl_up", "x_flush",
       "x_sleep4", "x_close",
       "w_class", "w_classify", "w_detect", "w_sleep", "w_send", "w_result",
       "w_sleep2", "w_ok",
       "done" >>

Position(label) == CHOOSE k \in 1..Len(ProgramOrder) : ProgramOrder[k] = label

\* C20: every run of either binary reaches its exit with a status code, and
\* every step moves forward in the program: the only repetition is the
\* argument loop, which advances its index, and nothing happens after the
\* exit.
C20_RunsOnceAndExits ==
    /\ <>(pc = "done" /\ exit \in {0, 1, 2, 3, 4})
    /\ [][ /\ pc # "done"
           /\ \/ Position(pc') > Position(pc)
              \/ pc = "parse" /\ pc' = "parse" /\ i' > i /\ i <= Len(argv) ]_vars

\* C20 witness: a run of the linux binary that activated a window, wrote
\* nothing to a device, and has exited.
C20_Witness ==
    /\ pc = "done" /\ exit = 0
    /\ CalledAny("XSetInputFocus") /\ CalledAny("XGetClassHint")

====
